---- MODULE Spec2Model ----
(***************************************************************************)
(* Model of the concierge launcher (src/launcher/src): main.rs, config.rs, *)
(* update.rs, setup.rs, exec.rs.  The launcher is a blocking, sequential   *)
(* program; every filesystem call, HTTP request and child process is one   *)
(* step of the process that makes it, and the process can be killed        *)
(* between any two steps.  Files persist from one run to the next.         *)
(***************************************************************************)
EXTENDS Integers, Sequences, FiniteSets, TLC

\* ---------------------------------------------------------------- bounds
\* Number of launcher runs (process invocations) in one behaviour.
MaxRuns == 2

\* ------------------------------------------------------- option values
None == <<>>
Some(v) == <<v>>
IsSome(o) == Len(o) = 1
Val(o) == o[1]

\* ------------------------------------------------------------- paths
\* A path is the sequence of its components; PathBuf::join appends one.
Join(path, name) == Append(path, name)
Parent(path) == SubSeq(path, 1, Len(path) - 1)
HomePath == <<"home", "u">>
TmpData == <<"tmp", "cdata">>

\* ------------------------------------------------------- byte contents
\* Artifacts are short byte sequences; a file being written holds a prefix.
OldBin == <<1, 2>>
BlobA == <<3, 4>>
BlobB == <<3, 5>>
Blobs == {BlobA, BlobB}

\* Public keys: the all-zero placeholder of update.rs (it decodes to a
\* small-order point, which verify_strict rejects), two keys of real
\* keypairs, and 32 bytes that decode to no curve point.
ZeroKey == "zero"
KeyA == "keyA"
KeyB == "keyB"
BadKey == "undecodable"
RealKeys == {KeyA, KeyB}

\* The bytes of a signature file: its length, and (when it is 64 bytes
\* long) the keypair and message it is an Ed25519 signature of.
Sign(k, b) == [len |-> 64, signer |-> k, msg |-> b]
ShortSig == [len |-> 7, signer |-> "none", msg |-> <<>>]
EmptySig == [len |-> 0, signer |-> "none", msg |-> <<>>]
SigBlobs == {Sign(k, b) : k \in RealKeys, b \in Blobs} \cup {ShortSig}

\* The launcher processes.  Process 1 is the launcher of the sequential
\* specification; process 2 is a second instance on the same directories.
Procs == {1, 2}

VARIABLES
    dataDirEnv,   \* CONCIERGE_DATA_DIR: None or Some(path)
    homeDir,      \* the home directory: None when it cannot be determined
    tmpSeparate,  \* TRUE when /tmp is a filesystem of its own
    signingKey,   \* SIGNING_PUBLIC_KEY, fixed at build time
    files,        \* the filesystem: path -> [content, exec]
    venv,         \* the managed venv: [pip, concierge, pkg]
    runs,         \* launcher runs started so far
    proc,         \* per process: position, locals of main, outcome, history
    call          \* a function called on its own: arguments and result

vars == <<dataDirEnv, homeDir, tmpSeparate, signingKey, files, venv, runs, proc,
          call>>

\* what no step of a launcher changes
envVars == <<dataDirEnv, homeDir, tmpSeparate, signingKey, call>>

\* -------------------------------------------------------- filesystem
Exists(fs, path) == path \in DOMAIN fs

Put(fs, path, file) ==
    [q \in (DOMAIN fs) \cup {path} |-> IF q = path THEN file ELSE fs[q]]

\* std::fs::remove_file
RemoveFile(fs, path) == [q \in (DOMAIN fs) \ {path} |-> fs[q]]

\* File::create, the first half of std::fs::write: the file is created
\* with no permission to execute, or truncated keeping its mode.
CreateFile(fs, path, empty) ==
    Put(fs, path, [content |-> empty,
                   exec |-> IF Exists(fs, path) THEN fs[path].exec ELSE FALSE])

SetContent(fs, path, c) == [fs EXCEPT ![path].content = c]

\* set_permissions(path, 0o755)
SetExec(fs, path) == [fs EXCEPT ![path].exec = TRUE]

\* std::fs::rename: the source's inode, whole, takes the target's name.
RenameFile(fs, from, to) == Put(RemoveFile(fs, from), to, fs[from])

\* The filesystem a path lives on.
FsOf(path) == IF tmpSeparate /\ path[1] = "tmp" THEN "tmpfs" ELSE "rootfs"

\* ------------------------------------------------------------ config.rs
data_local_dir == IF IsSome(homeDir) THEN Some(Val(homeDir) \o <<".local", "share">>) ELSE None
executable_dir == IF IsSome(homeDir) THEN Some(Val(homeDir) \o <<".local", "bin">>) ELSE None

cfg_data_dir ==
    IF IsSome(dataDirEnv) THEN dataDirEnv
    ELSE IF IsSome(data_local_dir) THEN Some(Join(Val(data_local_dir), "agentic-concierge"))
    ELSE None

cfg_bin_dir ==
    IF IsSome(executable_dir) THEN executable_dir
    ELSE IF IsSome(homeDir) THEN Some(Val(homeDir) \o <<".local", "bin">>)
    ELSE None

\* launcher_config() returns Ok
ConfigOk == IsSome(cfg_data_dir) /\ IsSome(cfg_bin_dir)

\* launcher_config with the version marker placed at the launcher's path
launcher_config_VersionAtBin ==
    [data_dir      |-> Val(cfg_data_dir),
     venv_dir      |-> Join(Val(cfg_data_dir), "venv"),
     uv_path       |-> Join(Val(cfg_data_dir), "uv"),
     version_file  |-> Join(Val(cfg_bin_dir), "concierge"),
     bin_dir       |-> Val(cfg_bin_dir),
     installed_bin |-> Join(Val(cfg_bin_dir), "concierge")]

\* launcher_config(): the LauncherConfig (skip_update is held per run)
launcher_config ==
    [data_dir      |-> Val(cfg_data_dir),
     venv_dir      |-> Join(Val(cfg_data_dir), "venv"),
     uv_path       |-> Join(Val(cfg_data_dir), "uv"),
     version_file  |-> Join(Val(cfg_data_dir), "installed_version"),
     bin_dir       |-> Val(cfg_bin_dir),
     installed_bin |-> Join(Val(cfg_bin_dir), "concierge")]

config == launcher_config
\* apply_update staging the download at installed_bin itself
new_path_InPlace == config.installed_bin
new_path == Join(config.data_dir, "concierge.new")
sig_path == Join(config.data_dir, "concierge.new.sig")

\* ------------------------------------------------- update.rs: verify
\* VerifyingKey::from_bytes: the bytes decode to a curve point
KeyDecodes(k) == k # BadKey

\* VerifyingKey::verify_strict: rejects a small-order key, and accepts
\* only a signature made by the key's keypair over exactly these bytes.
verify_strict(k, binary, sig) ==
    /\ k # ZeroKey
    /\ sig.signer = k
    /\ sig.msg = binary

\* the key decoded before the length of the signature is looked at
verify_binary_signature_with_key_KeyFirst(fs, binary_path, sig_path_, pub_key_bytes) ==
    IF ~Exists(fs, binary_path) THEN "Io"
    ELSE IF ~Exists(fs, sig_path_) THEN "Io"
    ELSE IF ~KeyDecodes(pub_key_bytes) THEN "InvalidKey"
    ELSE IF fs[sig_path_].content.len # 64 THEN "BadLen"
    ELSE IF verify_strict(pub_key_bytes, fs[binary_path].content, fs[sig_path_].content) THEN "Ok"
    ELSE "Mismatch"

\* the signature file checked against the length of a key
verify_binary_signature_with_key_Len32(fs, binary_path, sig_path_, pub_key_bytes) ==
    IF ~Exists(fs, binary_path) THEN "Io"
    ELSE IF ~Exists(fs, sig_path_) THEN "Io"
    ELSE IF fs[sig_path_].content.len # 32 THEN "BadLen"
    ELSE IF ~KeyDecodes(pub_key_bytes) THEN "InvalidKey"
    ELSE IF verify_strict(pub_key_bytes, fs[binary_path].content, fs[sig_path_].content) THEN "Ok"
    ELSE "Mismatch"

\* the signature verified over the first byte of the binary only
verify_binary_signature_with_key_FirstByte(fs, binary_path, sig_path_, pub_key_bytes) ==
    IF ~Exists(fs, binary_path) THEN "Io"
    ELSE IF ~Exists(fs, sig_path_) THEN "Io"
    ELSE IF fs[sig_path_].content.len # 64 THEN "BadLen"
    ELSE IF ~KeyDecodes(pub_key_bytes) THEN "InvalidKey"
    ELSE IF verify_strict(pub_key_bytes,
                          IF fs[binary_path].content = <<>> THEN <<>>
                          ELSE <<Head(fs[binary_path].content)>>,
                          fs[sig_path_].content) THEN "Ok"
    ELSE "Mismatch"

\* the signature verified under one fixed key, whatever key is passed
verify_binary_signature_with_key_FixedKey(fs, binary_path, sig_path_, pub_key_bytes) ==
    IF ~Exists(fs, binary_path) THEN "Io"
    ELSE IF ~Exists(fs, sig_path_) THEN "Io"
    ELSE IF fs[sig_path_].content.len # 64 THEN "BadLen"
    ELSE IF ~KeyDecodes(KeyA) THEN "InvalidKey"
    ELSE IF verify_strict(KeyA, fs[binary_path].content, fs[sig_path_].content) THEN "Ok"
    ELSE "Mismatch"

verify_binary_signature_with_key(fs, binary_path, sig_path_, pub_key_bytes) ==
    IF ~Exists(fs, binary_path) THEN "Io"
    ELSE IF ~Exists(fs, sig_path_) THEN "Io"
    ELSE IF fs[sig_path_].content.len # 64 THEN "BadLen"
    ELSE IF ~KeyDecodes(pub_key_bytes) THEN "InvalidKey"
    ELSE IF verify_strict(pub_key_bytes, fs[binary_path].content, fs[sig_path_].content) THEN "Ok"
    ELSE "Mismatch"

\* the binary verified under a test key instead of the embedded key
verify_binary_signature_TestKey(fs, binary_path, sig_path_) ==
    verify_binary_signature_with_key(fs, binary_path, sig_path_, KeyA)

verify_binary_signature(fs, binary_path, sig_path_) ==
    verify_binary_signature_with_key(fs, binary_path, sig_path_, signingKey)

\* ------------------------------------------------ strings and versions
\* A string is the sequence of its characters.
Digits == {"0", "1", "2", "3", "4", "5", "6", "7", "8", "9"}
DigitVal(c) == CASE c = "0" -> 0 [] c = "1" -> 1 [] c = "2" -> 2 [] c = "3" -> 3
                 [] c = "4" -> 4 [] c = "5" -> 5 [] c = "6" -> 6 [] c = "7" -> 7
                 [] c = "8" -> 8 [] c = "9" -> 9
\* ASCII order of the characters an identifier may hold
CharCode(c) == IF c = "-" THEN 45
               ELSE IF c \in Digits THEN 48 + DigitVal(c)
               ELSE IF c = "a" THEN 97
               ELSE IF c = "b" THEN 98
               ELSE IF c = "r" THEN 114
               ELSE IF c = "v" THEN 118
               ELSE 120
IdentChars == Digits \cup {"-", "a", "b", "r", "v", "x"}

\* str::trim_start_matches('v'): every leading 'v' is removed
RECURSIVE trim_start_matches_v(_)
trim_start_matches_v(s) ==
    IF s # <<>> /\ Head(s) = "v" THEN trim_start_matches_v(Tail(s)) ELSE s

\* position of the first c in s, 0 when there is none
IndexOf(s, c) ==
    IF \E i \in 1..Len(s) : s[i] = c
    THEN CHOOSE i \in 1..Len(s) : s[i] = c /\ \A j \in 1..(i - 1) : s[j] # c
    ELSE 0

\* s.split('.')
RECURSIVE SplitDot(_)
SplitDot(s) ==
    LET i == IndexOf(s, ".")
    IN IF i = 0 THEN <<s>>
       ELSE <<SubSeq(s, 1, i - 1)>> \o SplitDot(SubSeq(s, i + 1, Len(s)))

AllDigits(s) == \A i \in 1..Len(s) : s[i] \in Digits
RECURSIVE NumVal(_)
NumVal(s) == IF s = <<>> THEN 0
             ELSE 10 * NumVal(SubSeq(s, 1, Len(s) - 1)) + DigitVal(s[Len(s)])

\* a numeric component: digits, with no leading zero
IsNumeric(s) == s # <<>> /\ AllDigits(s) /\ (Len(s) > 1 => s[1] # "0")
\* a pre-release identifier; a build identifier may also have leading zeros
IsIdent(s) == s # <<>> /\ \A i \in 1..Len(s) : s[i] \in IdentChars
IsPreIdent(s) == IsIdent(s) /\ (AllDigits(s) => IsNumeric(s))

\* semver::Version::parse: MAJOR.MINOR.PATCH[-pre][+build]
VersionParse(text) ==
    LET plus  == IndexOf(text, "+")
        front == IF plus = 0 THEN text ELSE SubSeq(text, 1, plus - 1)
        build == IF plus = 0 THEN <<>> ELSE SplitDot(SubSeq(text, plus + 1, Len(text)))
        dash  == IndexOf(front, "-")
        core  == IF dash = 0 THEN front ELSE SubSeq(front, 1, dash - 1)
        pre   == IF dash = 0 THEN <<>> ELSE SplitDot(SubSeq(front, dash + 1, Len(front)))
        nums  == SplitDot(core)
        ok    == /\ Len(nums) = 3
                 /\ \A i \in 1..3 : IsNumeric(nums[i])
                 /\ \A i \in 1..Len(pre) : IsPreIdent(pre[i])
                 /\ \A i \in 1..Len(build) : IsIdent(build[i])
    IN IF ok
       THEN [ok |-> TRUE, major |-> NumVal(nums[1]), minor |-> NumVal(nums[2]),
             patch |-> NumVal(nums[3]), pre |-> pre, build |-> build]
       ELSE [ok |-> FALSE, major |-> 0, minor |-> 0, patch |-> 0,
             pre |-> <<>>, build |-> <<>>]

\* byte-wise order of two strings: -1, 0 or 1
RECURSIVE StrCmp(_, _)
StrCmp(a, b) ==
    IF a = <<>> /\ b = <<>> THEN 0
    ELSE IF a = <<>> THEN -1
    ELSE IF b = <<>> THEN 1
    ELSE IF CharCode(Head(a)) < CharCode(Head(b)) THEN -1
    ELSE IF CharCode(Head(a)) > CharCode(Head(b)) THEN 1
    ELSE StrCmp(Tail(a), Tail(b))

IntCmp(a, b) == IF a < b THEN -1 ELSE IF a > b THEN 1 ELSE 0

\* order of two identifiers: numeric ones by value and below the others
IdentCmp(a, b) ==
    IF AllDigits(a) /\ AllDigits(b) THEN
        (IF NumVal(a) # NumVal(b) THEN IntCmp(NumVal(a), NumVal(b))
         ELSE IntCmp(Len(a), Len(b)))
    ELSE IF AllDigits(a) THEN -1
    ELSE IF AllDigits(b) THEN 1
    ELSE StrCmp(a, b)

RECURSIVE IdentsCmp(_, _)
IdentsCmp(a, b) ==
    IF a = <<>> /\ b = <<>> THEN 0
    ELSE IF a = <<>> THEN -1
    ELSE IF b = <<>> THEN 1
    ELSE IF IdentCmp(Head(a), Head(b)) # 0 THEN IdentCmp(Head(a), Head(b))
    ELSE IdentsCmp(Tail(a), Tail(b))

\* impl Ord for Prerelease: no pre-release is above every pre-release
PreCmp(a, b) ==
    IF a = <<>> /\ b = <<>> THEN 0
    ELSE IF a = <<>> THEN 1
    ELSE IF b = <<>> THEN -1
    ELSE IdentsCmp(a, b)

\* impl Ord for Version: major, minor, patch, pre, build
VersionCmp(a, b) ==
    IF a.major # b.major THEN IntCmp(a.major, b.major)
    ELSE IF a.minor # b.minor THEN IntCmp(a.minor, b.minor)
    ELSE IF a.patch # b.patch THEN IntCmp(a.patch, b.patch)
    ELSE IF PreCmp(a.pre, b.pre) # 0 THEN PreCmp(a.pre, b.pre)
    ELSE IdentsCmp(a.build, b.build)

\* env!("CARGO_PKG_VERSION"), the version of the running launcher
CARGO_PKG_VERSION == <<"1", ".", "0", ".", "0">>

\* update.rs is_newer, on the version string of a release
is_newer_version(version) ==
    LET current == VersionParse(CARGO_PKG_VERSION)
        latest  == VersionParse(version)
    IN IF ~current.ok THEN FALSE
       ELSE IF ~latest.ok THEN FALSE
       ELSE VersionCmp(latest, current) = 1

is_newer(r) == is_newer_version(r.version)

\* ------------------------------------------ update.rs: release lookup
ARCH_STR == "x86_64"
asset_target_suffix == "unknown-linux-musl"
\* format!("concierge-{}-{}", ARCH_STR, asset_target_suffix())
asset_name == <<"concierge", ARCH_STR, asset_target_suffix>>

\* position of the first asset with this name, 0 when there is none
FindAsset(assets, name) ==
    IF \E i \in 1..Len(assets) : assets[i].name = name
    THEN CHOOSE i \in 1..Len(assets) :
            assets[i].name = name /\ \A j \in 1..(i - 1) : assets[j].name # name
    ELSE 0

\* check_latest_release_inner on the registry's answer: "err" for Err,
\* else the Option<ReleaseInfo>
check_latest_release_inner(resp) ==
    IF resp.kind \in {"network", "timeout"} THEN [res |-> "err", info |-> None]
    ELSE IF ~(resp.status \in 200..299) THEN [res |-> "ok", info |-> None]
    ELSE IF resp.kind = "badjson" THEN [res |-> "err", info |-> None]
    ELSE LET version == trim_start_matches_v(resp.tag_name)
             i == FindAsset(resp.assets, asset_name)
         IN [res |-> "ok",
             info |-> IF i = 0 THEN None
                      ELSE Some([version |-> version,
                                 download_url |-> resp.assets[i].url])]

\* check_latest_release: .ok().flatten()
check_latest_release(resp) == check_latest_release_inner(resp).info

\* ------------------------------------------------- the untrusted network
Tags == {<<"v", "2", ".", "0", ".", "0">>,
         <<"1", ".", "0", ".", "0">>,
         <<"v", "0", ".", "9", ".", "0">>}
OtherAsset == [name |-> <<"concierge", "aarch64", "apple-darwin">>, url |-> "u0"]
MatchAsset(u) == [name |-> asset_name, url |-> u]
AssetLists == {<<>>, <<OtherAsset>>, <<MatchAsset("u1")>>,
               <<OtherAsset, MatchAsset("u1"), MatchAsset("u2")>>}

\* What the release registry may answer to the metadata request.
Responses ==
    {[kind |-> "network", status |-> 0, tag_name |-> <<>>, assets |-> <<>>],
     [kind |-> "timeout", status |-> 0, tag_name |-> <<>>, assets |-> <<>>],
     [kind |-> "http", status |-> 404, tag_name |-> <<>>, assets |-> <<>>],
     [kind |-> "badjson", status |-> 200, tag_name |-> <<>>, assets |-> <<>>]} \cup
    {[kind |-> "json", status |-> 200, tag_name |-> t, assets |-> a] :
        t \in Tags, a \in AssetLists}

\* ------------------------------------------------------ process state
InstalledNow(fs) ==
    IF ConfigOk /\ Exists(fs, config.installed_bin)
    THEN Some(fs[config.installed_bin]) ELSE None

VersionFileNow(fs) ==
    IF ConfigOk /\ Exists(fs, config.version_file)
    THEN Some(fs[config.version_file]) ELSE None

\* a launcher process at the entry of main
Fresh(fs) ==
    [pc |-> "start", selfUpdate |-> FALSE, skipUpdate |-> FALSE,
     release |-> None, bytes |-> <<>>, sigBytes |-> EmptySig,
     vres |-> "none", applyRes |-> "none", upgradeRes |-> "none",
     fd |-> None, off |-> 0, verified |-> None,
     python |-> FALSE, archive |-> <<>>, uvBin |-> None, uvErr |-> "none",
     err |-> "none", exitCode |-> -1, trace |-> <<>>,
     binAtStart |-> InstalledNow(fs), verAtStart |-> VersionFileNow(fs)]

Off == [Fresh(<<>>) EXCEPT !.pc = "off", !.binAtStart = None, !.verAtStart = None]

Killed == [Off EXCEPT !.pc = "killed"]

Stopped == {"off", "exited", "killed", "execd"}

Goto(p, label) == proc' = [proc EXCEPT ![p].pc = label]
Step(p, label, ev) ==
    proc' = [proc EXCEPT ![p].pc = label, ![p].trace = Append(@, ev)]
\* main returns Err(e): the process ends with status 1
MainErr(p, e) ==
    proc' = [proc EXCEPT ![p].pc = "exited", ![p].err = e, ![p].exitCode = 1]
\* ensure_environment reporting the Err of ensure_uv and going on
EnsureUvErrIgnored(p, e) ==
    proc' = [proc EXCEPT ![p].pc = "mk_venv", ![p].uvErr = e]
\* ensure_uv returns Err(e): ensure_environment reports it and returns
\* SetupError::NoPython, which main returns with `?`
EnsureUvErr(p, e) ==
    proc' = [proc EXCEPT ![p].pc = "exited", ![p].err = "NoPython", ![p].exitCode = 1,
                         ![p].uvErr = e]
\* apply_update returns Err(e), which main returns with `?`
ApplyErr(p, e) ==
    proc' = [proc EXCEPT ![p].pc = "exited", ![p].err = e, ![p].exitCode = 1,
                         ![p].applyRes = "Err", ![p].fd = None, ![p].off = 0]

\* A file a process has open is an inode, not a name: `fd` is the path
\* the inode is found at now, None once it has no name left.  A rename
\* carries the open file to its new name and leaves the replaced target
\* without one; a remove leaves the file without a name.
Moved(pr, from, to) ==
    [q \in Procs |->
        [pr[q] EXCEPT !.fd = IF @ = Some(from) THEN Some(to)
                             ELSE IF @ = Some(to) THEN None ELSE @]]
Unlinked(pr, path) ==
    [q \in Procs |-> [pr[q] EXCEPT !.fd = IF @ = Some(path) THEN None ELSE @]]

\* write(fd, byte) at the offset `off` of the open file: a file that was
\* truncated in between is filled with zero bytes up to the offset
WriteAt(content, off, byte) ==
    LET padded == content \o [i \in 1..(off - Len(content)) |-> 0]
    IN [i \in 1..(IF Len(padded) > off THEN Len(padded) ELSE off + 1) |->
            IF i = off + 1 THEN byte ELSE padded[i]]
\* the bytes of process p's open file after its next write
WriteNext(fs, pr, bytes) ==
    IF pr.fd = None THEN fs
    ELSE SetContent(fs, Val(pr.fd), WriteAt(fs[Val(pr.fd)].content, pr.off, bytes[pr.off + 1]))
\* main dropping the error of upgrade_package
UpgradeErrIgnored(p, e) ==
    proc' = [proc EXCEPT ![p].pc = "restart", ![p].err = e, ![p].upgradeRes = "Err"]

\* upgrade_package returns Err(e), which main returns with `?`
UpgradeErr(p, e) ==
    proc' = [proc EXCEPT ![p].pc = "exited", ![p].err = e, ![p].exitCode = 1,
                         ![p].upgradeRes = "Err"]

\* ----------------------------------------------------------- main.rs
\* main: parse_launcher_args, launcher_config()?, and the branch taken
MainStart(p) ==
    /\ proc[p].pc = "start"
    /\ \E su \in BOOLEAN, sk \in BOOLEAN :
          IF ~ConfigOk
          THEN proc' = [proc EXCEPT ![p].pc = "exited", ![p].err = "NoHomeDir",
                                    ![p].exitCode = 1, ![p].selfUpdate = su]
          ELSE proc' = [proc EXCEPT ![p].selfUpdate = su, ![p].skipUpdate = sk,
                          ![p].pc = IF su \/ ~sk THEN "check" ELSE "ensure_env"]
    /\ UNCHANGED <<envVars, files, venv, runs>>

\* a forced update that goes on only for a release newer than the
\* running version
ForcedCheckIfNewer(p) ==
    /\ proc[p].pc = "check"
    /\ proc[p].selfUpdate
    /\ \E resp \in Responses :
          LET r == check_latest_release(resp)
          IN IF IsSome(r) /\ is_newer(Val(r))
             THEN proc' = [proc EXCEPT ![p].pc = "dl_bin", ![p].release = r,
                                       ![p].trace = Append(@, "resolve")]
             ELSE proc' = [proc EXCEPT ![p].pc = "exited", ![p].exitCode = 1,
                              ![p].trace = @ \o <<"resolve", "msg_no_github">>]
    /\ UNCHANGED <<envVars, files, venv, runs>>

\* main, --self-update: check_latest_release and its match
ForcedCheck(p) ==
    /\ proc[p].pc = "check"
    /\ proc[p].selfUpdate
    /\ \E resp \in Responses :
          LET r == check_latest_release(resp)
          IN IF IsSome(r)
             THEN proc' = [proc EXCEPT ![p].pc = "dl_bin", ![p].release = r,
                                       ![p].trace = Append(@, "resolve")]
             ELSE \* eprintln!("could not reach GitHub"); exit(1)
                  proc' = [proc EXCEPT ![p].pc = "exited", ![p].exitCode = 1,
                              ![p].trace = @ \o <<"resolve", "msg_no_github">>]
    /\ UNCHANGED <<envVars, files, venv, runs>>

\* a passive check that returns the resolver's Err from main
PassiveCheckPropagating(p) ==
    /\ proc[p].pc = "check"
    /\ ~proc[p].selfUpdate
    /\ \E resp \in Responses :
          LET r == check_latest_release_inner(resp)
          IN IF r.res = "err"
             THEN MainErr(p, "network")
             ELSE proc' = [proc EXCEPT ![p].pc = IF IsSome(r.info) THEN "compare" ELSE "ensure_env",
                                       ![p].release = r.info,
                                       ![p].trace = Append(@, "resolve")]
    /\ UNCHANGED <<envVars, files, venv, runs>>

\* main, passive: check_latest_release; every failure is a None
PassiveCheck(p) ==
    /\ proc[p].pc = "check"
    /\ ~proc[p].selfUpdate
    /\ \E resp \in Responses :
          LET r == check_latest_release(resp)
          IN proc' = [proc EXCEPT ![p].pc = IF IsSome(r) THEN "compare" ELSE "ensure_env",
                                  ![p].release = r,
                                  ![p].trace = Append(@, "resolve")]
    /\ UNCHANGED <<envVars, files, venv, runs>>

\* main, passive: is_newer and the advisory message
PassiveCompare(p) ==
    /\ proc[p].pc = "compare"
    /\ proc' = [proc EXCEPT ![p].pc = "ensure_env", ![p].release = None,
                  ![p].trace = IF is_newer(Val(proc[p].release))
                               THEN @ \o <<"compare", "msg_update_available">>
                               ELSE Append(@, "compare")]
    /\ UNCHANGED <<envVars, files, venv, runs>>

\* ------------------------------------------------ update.rs apply_update
\* Step 1: GET download_url, error_for_status, bytes
DownloadBinary(p) ==
    /\ proc[p].pc = "dl_bin"
    /\ \/ ApplyErr(p, "network")
       \/ \E b \in Blobs :
             proc' = [proc EXCEPT ![p].pc = "create_new", ![p].bytes = b,
                                  ![p].trace = Append(@, "download_bin")]
    /\ UNCHANGED <<envVars, files, venv, runs>>

\* the staging file opened with create_new: an existing file is an error
CreateNewExclusive(p) ==
    /\ proc[p].pc = "create_new"
    /\ \/ ApplyErr(p, "io") /\ UNCHANGED files
       \/ /\ ~Exists(files, new_path)
          /\ files' = CreateFile(files, new_path, <<>>)
          /\ proc' = [proc EXCEPT ![p].pc = "write_new", ![p].fd = Some(new_path),
                                  ![p].off = 0]
    /\ UNCHANGED <<envVars, venv, runs>>

\* fs::write(new_path, bytes): the file is created or truncated
CreateNew(p) ==
    /\ proc[p].pc = "create_new"
    /\ \/ ApplyErr(p, "io") /\ UNCHANGED files
       \/ /\ files' = CreateFile(files, new_path, <<>>)
          /\ proc' = [proc EXCEPT ![p].pc = "write_new", ![p].fd = Some(new_path),
                                  ![p].off = 0]
    /\ UNCHANGED <<envVars, venv, runs>>

\* apply_update going from the binary straight to the verification
WriteNewThenVerify(p) ==
    /\ proc[p].pc = "write_new"
    /\ \/ ApplyErr(p, "io") /\ UNCHANGED files
       \/ LET n == proc[p].off + 1
          IN /\ files' = WriteNext(files, proc[p], proc[p].bytes)
             /\ proc' = IF n = Len(proc[p].bytes)
                        THEN [proc EXCEPT ![p].pc = "verify", ![p].fd = None, ![p].off = 0]
                        ELSE [proc EXCEPT ![p].off = n]
    /\ UNCHANGED <<envVars, venv, runs>>

\* fs::write(new_path, bytes): the bytes are written, one at a time
WriteNew(p) ==
    /\ proc[p].pc = "write_new"
    /\ \/ ApplyErr(p, "io") /\ UNCHANGED files
       \/ LET n == proc[p].off + 1
          IN /\ files' = WriteNext(files, proc[p], proc[p].bytes)
             /\ proc' = IF n = Len(proc[p].bytes)
                        THEN [proc EXCEPT ![p].pc = "dl_sig", ![p].fd = None, ![p].off = 0]
                        ELSE [proc EXCEPT ![p].off = n]
    /\ UNCHANGED <<envVars, venv, runs>>

\* Steps 2 and 3: GET download_url + ".sig"
DownloadSig(p) ==
    /\ proc[p].pc = "dl_sig"
    /\ \/ ApplyErr(p, "network")
       \/ \E s \in SigBlobs :
             proc' = [proc EXCEPT ![p].pc = "create_sig", ![p].sigBytes = s,
                                  ![p].trace = Append(@, "download_sig")]
    /\ UNCHANGED <<envVars, files, venv, runs>>

\* fs::write(sig_path, sig_bytes): the file is created or truncated
CreateSig(p) ==
    /\ proc[p].pc = "create_sig"
    /\ \/ ApplyErr(p, "io") /\ UNCHANGED files
       \/ /\ files' = CreateFile(files, sig_path, EmptySig)
          /\ proc' = [proc EXCEPT ![p].pc = "write_sig", ![p].fd = Some(sig_path)]
    /\ UNCHANGED <<envVars, venv, runs>>

\* fs::write(sig_path, sig_bytes): the bytes are written
WriteSig(p) ==
    /\ proc[p].pc = "write_sig"
    /\ \/ ApplyErr(p, "io") /\ UNCHANGED files
       \/ /\ files' = IF proc[p].fd = None THEN files
                       ELSE SetContent(files, Val(proc[p].fd), proc[p].sigBytes)
          /\ proc' = [proc EXCEPT ![p].pc = "verify", ![p].fd = None]
    /\ UNCHANGED <<envVars, venv, runs>>

\* apply_update going on to install whatever the verification returned
VerifyNoAbort(p) ==
    /\ proc[p].pc = "verify"
    /\ LET v == verify_binary_signature(files, new_path, sig_path)
       IN proc' = [proc EXCEPT ![p].vres = v, ![p].pc = "chmod",
                               ![p].verified = IF v = "Ok" THEN Some(files[new_path].content)
                                               ELSE None,
                               ![p].trace = Append(@, "verify")]
    /\ UNCHANGED <<envVars, files, venv, runs>>

\* Step 4: verify_binary_signature(new_path, sig_path)
Verify(p) ==
    /\ proc[p].pc = "verify"
    /\ LET v == verify_binary_signature(files, new_path, sig_path)
       IN proc' = [proc EXCEPT ![p].vres = v,
                               ![p].pc = IF v = "Ok" THEN "chmod" ELSE "cleanup_new",
                               \* the bytes the verification read and accepted
                               ![p].verified = IF v = "Ok" THEN Some(files[new_path].content)
                                               ELSE None,
                               ![p].trace = Append(@, "verify")]
    /\ UNCHANGED <<envVars, files, venv, runs>>

\* the Err branch leaving the staged binary behind
CleanupNewSkipped(p) ==
    /\ proc[p].pc = "cleanup_new"
    /\ Goto(p, "cleanup_sig")
    /\ UNCHANGED <<envVars, files, venv, runs>>

\* Step 4, Err: let _ = remove_file(new_path)
CleanupNew(p) ==
    /\ proc[p].pc = "cleanup_new"
    /\ files' = RemoveFile(files, new_path)
    /\ proc' = Unlinked([proc EXCEPT ![p].pc = "cleanup_sig"], new_path)
    /\ UNCHANGED <<envVars, venv, runs>>

\* Step 4, Err: let _ = remove_file(sig_path); return Err(e)
CleanupSig(p) ==
    /\ proc[p].pc = "cleanup_sig"
    /\ files' = RemoveFile(files, sig_path)
    /\ proc' = Unlinked([proc EXCEPT ![p].pc = "exited", ![p].err = proc[p].vres,
                                     ![p].exitCode = 1, ![p].applyRes = "Err"], sig_path)
    /\ UNCHANGED <<envVars, venv, runs>>

\* Step 5: metadata(new_path)?, set_mode(0o755), set_permissions(..)?
Chmod(p) ==
    /\ proc[p].pc = "chmod"
    /\ \/ ApplyErr(p, "io") /\ UNCHANGED files
       \/ /\ Exists(files, new_path)
          /\ files' = SetExec(files, new_path)
          /\ Step(p, "rename", "chmod")
    /\ UNCHANGED <<envVars, venv, runs>>

\* Step 6: rename(new_path, installed_bin)?  A rename from one filesystem
\* to another fails (EXDEV).
Rename(p) ==
    /\ proc[p].pc = "rename"
    /\ \/ ApplyErr(p, "io") /\ UNCHANGED files
       \/ /\ Exists(files, new_path)
          /\ FsOf(new_path) = FsOf(config.installed_bin)
          /\ files' = RenameFile(files, new_path, config.installed_bin)
          /\ proc' = Moved([proc EXCEPT ![p].pc = "rm_sig", ![p].trace = Append(@, "rename")],
                           new_path, config.installed_bin)
    /\ UNCHANGED <<envVars, venv, runs>>

\* Step 7: let _ = remove_file(sig_path)
RemoveSig(p) ==
    /\ proc[p].pc = "rm_sig"
    /\ files' = RemoveFile(files, sig_path)
    /\ proc' = Unlinked([proc EXCEPT ![p].pc = "report", ![p].trace = Append(@, "rm_sig")],
                        sig_path)
    /\ UNCHANGED <<envVars, venv, runs>>

\* Step 8: eprintln!("updated to v.."); Ok(())
Report(p) ==
    /\ proc[p].pc = "report"
    /\ proc' = [proc EXCEPT ![p].pc = "upgrade", ![p].applyRes = "Ok",
                            ![p].trace = Append(@, "report")]
    /\ UNCHANGED <<envVars, files, venv, runs>>

\* ---------------------------------------------- setup.rs upgrade_package
\* pip install --upgrade package==version, run from the venv
UpgradePip(p) ==
    /\ proc[p].pc = "upgrade"
    /\ \/ UpgradeErr(p, "PackageInstall") /\ UNCHANGED venv
       \/ /\ venv.pip
          /\ venv' = [venv EXCEPT !.concierge = TRUE,
                                  !.pkg = Some(Val(proc[p].release).version)]
          /\ Step(p, "write_ver", "pip_upgrade")
    /\ UNCHANGED <<envVars, files, runs>>

\* upgrade_package dropping the result of the write of version_file
UpgradeWriteVersionUnchecked(p) ==
    /\ proc[p].pc = "write_ver"
    /\ \/ UNCHANGED files
       \/ files' = CreateFile(files, config.version_file, <<>>)
       \/ files' = SetContent(CreateFile(files, config.version_file, <<>>),
                              config.version_file, Val(proc[p].release).version)
    /\ proc' = [proc EXCEPT ![p].pc = "restart", ![p].upgradeRes = "Ok",
                            ![p].trace = Append(@, "write_version")]
    /\ UNCHANGED <<envVars, venv, runs>>

\* fs::write(version_file, version)?; Ok(())
\* A failed write leaves the file as it was, or truncated.
UpgradeWriteVersion(p) ==
    /\ proc[p].pc = "write_ver"
    /\ \/ UpgradeErr(p, "io") /\ UNCHANGED files
       \/ /\ UpgradeErr(p, "io")
          /\ files' = CreateFile(files, config.version_file, <<>>)
       \/ /\ files' = SetContent(CreateFile(files, config.version_file, <<>>),
                                 config.version_file, Val(proc[p].release).version)
          /\ proc' = [proc EXCEPT ![p].pc = "restart", ![p].upgradeRes = "Ok",
                                  ![p].trace = Append(@, "write_version")]
    /\ UNCHANGED <<envVars, venv, runs>>

\* main: eprintln!("restart to use the updated version"); exit(0)
RestartMsg(p) ==
    /\ proc[p].pc = "restart"
    /\ proc' = [proc EXCEPT ![p].pc = "exited", ![p].exitCode = 0,
                            ![p].trace = Append(@, "msg_restart")]
    /\ UNCHANGED <<envVars, files, venv, runs>>

\* --------------------------------------------------- setup.rs: helper tool
extract_dir == Join(config.data_dir, ".uv-extract")
tarball == Join(extract_dir, "uv.tar.gz")

IsPrefix(a, b) == Len(a) <= Len(b) /\ SubSeq(b, 1, Len(a)) = a
\* std::fs::remove_dir_all
remove_dir_all(fs, dir) == [q \in {r \in DOMAIN fs : ~IsPrefix(dir, r)} |-> fs[q]]

\* The helper tool's archive: the entries of the tar stream in stream
\* order; an entry with corrupt = TRUE is the place where the gzip or tar
\* framing is broken.
UvA == <<7, 8>>
UvB == <<9, 9>>
Entry(path, c) == [path |-> path, content |-> c, corrupt |-> FALSE]
CorruptEntry == [path |-> <<>>, content |-> <<>>, corrupt |-> TRUE]
Archives ==
    {<<Entry(<<"uv-x86_64-unknown-linux-musl", "uv">>, UvA)>>,
     <<Entry(<<"not-uv">>, UvB)>>,
     <<CorruptEntry>>,
     <<Entry(<<"uvx">>, UvB), Entry(<<"uv">>, UvA), Entry(<<"d", "uv">>, UvB)>>,
     <<Entry(<<"uvx">>, UvB), CorruptEntry, Entry(<<"uv">>, UvA)>>,
     <<Entry(<<"uv">>, UvA), CorruptEntry>>}

\* Path::file_name
file_name(path) == IF path = <<>> THEN None ELSE Some(path[Len(path)])

\* a loop that unpacks the first entry it reads, whatever its name
extract_uv_scan_AnyEntry(entries, i) ==
    IF i > Len(entries) THEN [res |-> "notfound", at |-> 0]
    ELSE IF entries[i].corrupt THEN [res |-> "corrupt", at |-> i]
    ELSE [res |-> "unpack", at |-> i]

\* a loop that reads the whole stream and keeps the last entry named "uv"
extract_uv_scan_LastUv(entries, i) ==
    LET uvs == {j \in i..Len(entries) :
                  ~entries[j].corrupt /\ file_name(entries[j].path) = Some("uv")}
    IN IF uvs # {}
       THEN [res |-> "unpack", at |-> CHOOSE j \in uvs : \A k \in uvs : k <= j]
       ELSE IF \E j \in i..Len(entries) : entries[j].corrupt
       THEN [res |-> "corrupt", at |-> 0]
       ELSE [res |-> "notfound", at |-> 0]

\* extract_uv's loop: the entry it stops at.  [res |-> "unpack", at |-> i]
\* when entry i is the first named "uv" and no entry before it is broken,
\* "corrupt" when `entry?` fails first, "notfound" at the end of the stream.
RECURSIVE extract_uv_scan(_, _)
extract_uv_scan(entries, i) ==
    IF i > Len(entries) THEN [res |-> "notfound", at |-> 0]
    ELSE IF entries[i].corrupt THEN [res |-> "corrupt", at |-> i]
    ELSE IF file_name(entries[i].path) = Some("uv") THEN [res |-> "unpack", at |-> i]
    ELSE extract_uv_scan(entries, i + 1)

\* The package version pip finds on the index for an unpinned install.
LatestPackage == <<"2", ".", "0", ".", "0">>

\* -------------------------------------------- setup.rs ensure_environment
\* concierge_bin.exists(): the fast path
EnsureEnvironment(p) ==
    /\ proc[p].pc = "ensure_env"
    /\ Goto(p, IF venv.concierge THEN "exec" ELSE "mkdir")
    /\ UNCHANGED <<envVars, files, venv, runs>>

\* create_dir_all(data_dir)?; try_system_python()
FirstTimeSetup(p) ==
    /\ proc[p].pc = "mkdir"
    /\ \/ MainErr(p, "io")
       \/ \E py \in BOOLEAN :
             proc' = [proc EXCEPT ![p].python = py,
                                  ![p].pc = IF py THEN "mk_venv" ELSE "uv_check"]
    /\ UNCHANGED <<envVars, files, venv, runs>>

\* ensure_uv: uv_path.exists(), else GET the archive
\* Every Err of ensure_uv becomes SetupError::NoPython.
EnsureUvDownload(p) ==
    /\ proc[p].pc = "uv_check"
    /\ IF Exists(files, config.uv_path)
       THEN Goto(p, "mk_venv")
       ELSE \/ EnsureUvErr(p, "network")
            \/ \E a \in Archives :
                  proc' = [proc EXCEPT ![p].archive = a, ![p].pc = "uv_tarball"]
    /\ UNCHANGED <<envVars, files, venv, runs>>

\* ensure_uv: create_dir_all(extract_dir)?; fs::write(tarball, bytes)?
EnsureUvTarball(p) ==
    /\ proc[p].pc = "uv_tarball"
    /\ \/ EnsureUvErr(p, "io") /\ UNCHANGED files
       \/ EnsureUvErr(p, "io") /\ files' = CreateFile(files, tarball, <<>>)
       \/ /\ files' = SetContent(CreateFile(files, tarball, <<>>), tarball, proc[p].archive)
          /\ Goto(p, "uv_extract")
    /\ UNCHANGED <<envVars, venv, runs>>

\* extract_uv: open the archive and walk its entries up to the first one
\* named "uv", the first broken one or the end of the stream
ExtractUvScan(p) ==
    /\ proc[p].pc = "uv_extract"
    /\ LET r == IF Exists(files, tarball)
                THEN extract_uv_scan(files[tarball].content, 1).res ELSE "io"
       IN IF r = "unpack"
          THEN Goto(p, "uv_unpack")
          ELSE proc' = [proc EXCEPT ![p].pc = "uv_extract_err", ![p].uvErr = r]
    /\ UNCHANGED <<envVars, files, venv, runs>>

\* ensure_uv: extract_uv returned Err; inspect_err removes extract_dir and
\* `?` returns the error
ExtractUvFailed(p) ==
    /\ proc[p].pc = "uv_extract_err"
    /\ files' = remove_dir_all(files, extract_dir)
    /\ EnsureUvErr(p, proc[p].uvErr)
    /\ UNCHANGED <<envVars, venv, runs>>

\* extract_uv: entry.unpack(dest_dir/uv) creates the file
ExtractUvUnpack(p) ==
    /\ proc[p].pc = "uv_unpack"
    /\ \/ /\ files' = remove_dir_all(files, extract_dir)
          /\ EnsureUvErr(p, "io")
       \/ /\ files' = CreateFile(files, Join(extract_dir, "uv"), <<>>)
          /\ Goto(p, "uv_unpack_write")
    /\ UNCHANGED <<envVars, venv, runs>>

\* extract_uv: entry.unpack writes the content; set_permissions(0o755)
ExtractUvWrite(p) ==
    /\ proc[p].pc = "uv_unpack_write"
    /\ LET out == Join(extract_dir, "uv")
           i == extract_uv_scan(proc[p].archive, 1).at
       IN \/ /\ files' = remove_dir_all(files, extract_dir)
             /\ EnsureUvErr(p, "io")
          \/ /\ files' = SetExec(SetContent(files, out, proc[p].archive[i].content), out)
             /\ proc' = [proc EXCEPT ![p].uvBin = Some(out), ![p].pc = "uv_copy"]
    /\ UNCHANGED <<envVars, venv, runs>>

\* ensure_uv: fs::copy(uv_bin, uv_path) creates the target with the
\* source's mode
EnsureUvCopyCreate(p) ==
    /\ proc[p].pc = "uv_copy"
    /\ \/ EnsureUvErr(p, "io") /\ UNCHANGED files
       \/ /\ Exists(files, Val(proc[p].uvBin))
          /\ files' = Put(files, config.uv_path,
                          [content |-> <<>>, exec |-> files[Val(proc[p].uvBin)].exec])
          /\ Goto(p, "uv_copy_write")
    /\ UNCHANGED <<envVars, venv, runs>>

\* ensure_uv: fs::copy writes the bytes, one at a time
EnsureUvCopyWrite(p) ==
    /\ proc[p].pc = "uv_copy_write"
    /\ \/ EnsureUvErr(p, "io") /\ UNCHANGED files
       \/ LET src == files[Val(proc[p].uvBin)].content
              n == Len(files[config.uv_path].content) + 1
          IN /\ files' = SetContent(files, config.uv_path, SubSeq(src, 1, n))
             /\ Goto(p, IF n = Len(src) THEN "uv_rmdir" ELSE "uv_copy_write")
    /\ UNCHANGED <<envVars, venv, runs>>

\* ensure_uv: let _ = remove_dir_all(extract_dir); uv_path.exists()
EnsureUvFinish(p) ==
    /\ proc[p].pc = "uv_rmdir"
    /\ files' = remove_dir_all(files, extract_dir)
    /\ IF Exists(files, config.uv_path)
       THEN Goto(p, "mk_venv")
       ELSE EnsureUvErr(p, "UvNotExecutable")
    /\ UNCHANGED <<envVars, venv, runs>>

\* ensure_environment: python -m venv, or uv venv
CreateVenv(p) ==
    /\ proc[p].pc = "mk_venv"
    /\ \/ MainErr(p, "VenvCreation") /\ UNCHANGED venv
       \/ /\ proc[p].python \/ Exists(files, config.uv_path)
          /\ venv' = [venv EXCEPT !.pip = TRUE]
          /\ Goto(p, "pip_install")
    /\ UNCHANGED <<envVars, files, runs>>

\* ensure_environment: pip install --upgrade package
PipInstall(p) ==
    /\ proc[p].pc = "pip_install"
    /\ \/ MainErr(p, "PackageInstall") /\ UNCHANGED venv
       \/ /\ venv.pip
          /\ venv' = [venv EXCEPT !.concierge = TRUE, !.pkg = Some(LatestPackage)]
          /\ Goto(p, "env_write_ver")
    /\ UNCHANGED <<envVars, files, runs>>

\* ensure_environment: fs::write(version_file, CARGO_PKG_VERSION)?
EnvWriteVersion(p) ==
    /\ proc[p].pc = "env_write_ver"
    /\ \/ MainErr(p, "io") /\ UNCHANGED files
       \/ /\ MainErr(p, "io")
          /\ files' = CreateFile(files, config.version_file, <<>>)
       \/ /\ files' = SetContent(CreateFile(files, config.version_file, <<>>),
                                 config.version_file, CARGO_PKG_VERSION)
          /\ Goto(p, "exec")
    /\ UNCHANGED <<envVars, venv, runs>>

\* ------------------------------------------- exec.rs exec_python_concierge
\* exec() replaces the process image, or returns the error
ExecPythonConcierge(p) ==
    /\ proc[p].pc = "exec"
    /\ \/ MainErr(p, "exec")
       \/ Step(p, "execd", "exec")
    /\ UNCHANGED <<envVars, files, venv, runs>>

\* ------------------------------------------------- the process's world
\* The process is killed between two steps; nothing of it remains but
\* what it did to the filesystem.
Kill(p) ==
    /\ proc[p].pc \notin Stopped
    /\ proc[p].pc # "start"
    /\ proc' = [proc EXCEPT ![p] = Killed]
    /\ UNCHANGED <<envVars, files, venv, runs>>

\* The launcher is started again.
Restart(p) ==
    /\ proc[p].pc \in Stopped \ {"off"}
    /\ runs < MaxRuns
    /\ runs' = runs + 1
    /\ proc' = [proc EXCEPT ![p] = Fresh(files)]
    /\ UNCHANGED <<envVars, files, venv>>

ProcNext(p) ==
    \/ MainStart(p) \/ ForcedCheck(p) \/ PassiveCheck(p) \/ PassiveCompare(p)
    \/ DownloadBinary(p) \/ CreateNew(p) \/ WriteNew(p)
    \/ DownloadSig(p) \/ CreateSig(p) \/ WriteSig(p)
    \/ Verify(p) \/ CleanupNew(p) \/ CleanupSig(p)
    \/ Chmod(p) \/ Rename(p) \/ RemoveSig(p) \/ Report(p)
    \/ UpgradePip(p) \/ UpgradeWriteVersion(p) \/ RestartMsg(p)
    \/ EnsureEnvironment(p) \/ FirstTimeSetup(p)
    \/ EnsureUvDownload(p) \/ EnsureUvTarball(p)
    \/ ExtractUvScan(p) \/ ExtractUvFailed(p) \/ ExtractUvUnpack(p) \/ ExtractUvWrite(p)
    \/ EnsureUvCopyCreate(p) \/ EnsureUvCopyWrite(p) \/ EnsureUvFinish(p)
    \/ CreateVenv(p) \/ PipInstall(p) \/ EnvWriteVersion(p)
    \/ ExecPythonConcierge(p)
    \/ Kill(p) \/ Restart(p)

\* --------------------------------------------------------- specification
\* no function is being called on its own
NoResponse == [kind |-> "none", status |-> 0, tag_name |-> <<>>, assets |-> <<>>]
NoCall == [fn |-> "none", key |-> "none", version |-> <<>>, resp |-> NoResponse,
           res |-> "none", info |-> None]
NoVenv == [pip |-> FALSE, concierge |-> FALSE, pkg |-> None]
ReadyVenv == [pip |-> TRUE, concierge |-> TRUE, pkg |-> Some(CARGO_PKG_VERSION)]

\* The environment a launcher can be started in.  CONCIERGE_DATA_DIR is
\* unset or names a directory under /tmp; /tmp being a filesystem of its
\* own matters only when the data directory is there.  The embedded key
\* is the placeholder, or the key of the release keypair once one is set.
InitWorld ==
    /\ dataDirEnv \in {None, Some(TmpData)}
    /\ homeDir \in {None, Some(HomePath)}
    /\ tmpSeparate \in (IF dataDirEnv = None THEN {FALSE} ELSE BOOLEAN)
    /\ signingKey \in {ZeroKey, KeyA}
    /\ files = IF ConfigOk
               THEN [q \in {config.installed_bin} |-> [content |-> OldBin, exec |-> TRUE]]
               ELSE <<>>
    /\ venv \in {NoVenv, ReadyVenv}
    /\ runs = 1

\* One launcher at a time, run after run.
Init ==
    /\ InitWorld
    /\ proc = [p \in Procs |-> IF p = 1 THEN Fresh(files) ELSE Off]
    /\ call = NoCall

Next == \E p \in Procs : ProcNext(p)

Spec == Init /\ [][Next]_vars

\* ------------------------------------------- functions called on their own
\* verify_binary_signature_with_key and is_newer, called as the unit tests
\* of update.rs call them: on two files of a temporary directory and an
\* explicit key, and on the version string of a ReleaseInfo.
test_bin_path == <<"tmp", "t", "binary">>
test_sig_path == <<"tmp", "t", "binary.sig">>

TestBlobs == {<<>>, <<3>>, BlobA, BlobB}
Garbage64 == [len |-> 64, signer |-> "none", msg |-> <<>>]
TestSigs == {Sign(k, b) : k \in RealKeys, b \in TestBlobs}
                \cup {ShortSig, EmptySig, Garbage64}
TestKeys == {ZeroKey, KeyA, KeyB, BadKey}

Chars(a, b, c) == <<a, ".", b, ".", c>>
TestVersions ==
    {Chars("2", "0", "0"), Chars("1", "0", "0"), Chars("0", "9", "9"),
     Chars("1", "0", "1"), Chars("1", "1", "0"), <<"1", ".", "0", ".", "1", "0">>,
     Chars("1", "0", "0") \o <<"-", "a">>, Chars("1", "0", "1") \o <<"-", "a">>,
     Chars("1", "0", "0") \o <<"+", "b">>, Chars("0", "9", "0") \o <<"+", "b">>,
     <<"0", "1", ".", "0", ".", "0">>, <<"1", ".", "0">>, <<"x">>, <<>>,
     Chars("1", "0", "0") \o <<"-">>, <<"v">> \o Chars("2", "0", "0")}

TestFiles(b, s) ==
    [q \in (IF b = None THEN {} ELSE {test_bin_path})
            \cup (IF s = None THEN {} ELSE {test_sig_path}) |->
        [content |-> IF q = test_bin_path THEN Val(b) ELSE Val(s), exec |-> FALSE]]

\* Answers of the registry to check_latest_release called on its own: the
\* failures, and releases whose tag has no, one or two leading "v" and
\* whose assets are for another platform, the signature beside the binary,
\* the binary itself, or the binary twice under different URLs.
TestTags == Tags \cup {<<"v", "v", "2", ".", "0", ".", "0">>, <<"v", "v", "x">>,
                       <<"v">>, <<>>}
SigAsset == [name |-> asset_name \o <<"sig">>, url |-> "u3"]
TestAssetLists ==
    AssetLists \cup {<<SigAsset>>, <<SigAsset, OtherAsset>>,
                     <<SigAsset, MatchAsset("u2"), OtherAsset, MatchAsset("u1")>>}
TestResponses ==
    Responses \cup
    {[kind |-> "http", status |-> st, tag_name |-> <<>>, assets |-> <<>>] :
        st \in {199, 300, 500}} \cup
    {[kind |-> "json", status |-> st, tag_name |-> t, assets |-> a] :
        st \in {200, 299}, t \in TestTags, a \in TestAssetLists}

InitCall ==
    /\ dataDirEnv = None
    /\ homeDir = Some(HomePath)
    /\ tmpSeparate = FALSE
    /\ signingKey = ZeroKey
    /\ venv = NoVenv
    /\ runs = 1
    /\ proc = [p \in Procs |-> Off]
    /\ \/ /\ \E k \in TestKeys : call = [NoCall EXCEPT !.fn = "verify", !.key = k]
          /\ \E b \in {None} \cup {Some(x) : x \in TestBlobs},
                s \in {None} \cup {Some(x) : x \in TestSigs} :
                files = TestFiles(b, s)
       \/ /\ \E v \in TestVersions : call = [NoCall EXCEPT !.fn = "is_newer", !.version = v]
          /\ files = <<>>
       \/ /\ \E resp \in TestResponses : call = [NoCall EXCEPT !.fn = "check", !.resp = resp]
          /\ files = <<>>

\* a verification that removes the files it rejects
VerifyCallRemoving ==
    /\ call.fn = "verify"
    /\ call.res = "none"
    /\ LET r == verify_binary_signature_with_key(files, test_bin_path, test_sig_path, call.key)
       IN /\ call' = [call EXCEPT !.res = r]
          /\ files' = IF r = "Ok" THEN files
                      ELSE RemoveFile(RemoveFile(files, test_bin_path), test_sig_path)
    /\ UNCHANGED <<dataDirEnv, homeDir, tmpSeparate, signingKey, venv, runs, proc>>

\* verify_binary_signature_with_key(&bin_path, &sig_path, &pk)
VerifyCall ==
    /\ call.fn = "verify"
    /\ call.res = "none"
    /\ call' = [call EXCEPT !.res =
            verify_binary_signature_with_key(files, test_bin_path, test_sig_path, call.key)]
    /\ UNCHANGED <<dataDirEnv, homeDir, tmpSeparate, signingKey, files, venv, runs, proc>>

\* is_newer(&release)
IsNewerCall ==
    /\ call.fn = "is_newer"
    /\ call.res = "none"
    /\ call' = [call EXCEPT !.res =
            IF is_newer([version |-> call.version, download_url |-> "u1"])
            THEN "true" ELSE "false"]
    /\ UNCHANGED <<dataDirEnv, homeDir, tmpSeparate, signingKey, files, venv, runs, proc>>

\* check_latest_release()
CheckCall ==
    /\ call.fn = "check"
    /\ call.res = "none"
    /\ call' = [call EXCEPT !.info = check_latest_release(call.resp),
                            !.res = IF check_latest_release(call.resp) = None
                                    THEN "None" ELSE "Some"]
    /\ UNCHANGED <<dataDirEnv, homeDir, tmpSeparate, signingKey, files, venv, runs, proc>>

NextCall == VerifyCall \/ IsNewerCall \/ CheckCall

SpecCall == InitCall /\ [][NextCall]_vars

\* ------------------------------------------- two launchers at once
\* Two launchers started with --self-update on the same directories, each
\* with the release resolved, running apply_update step by step in any
\* interleaving.
ResolvedRelease == [version |-> <<"2", ".", "0", ".", "0">>, download_url |-> "u1"]
Resolved(fs) ==
    [Fresh(fs) EXCEPT !.selfUpdate = TRUE, !.pc = "dl_bin",
                      !.release = Some(ResolvedRelease), !.trace = <<"resolve">>]

InitTwo ==
    /\ dataDirEnv = None
    /\ homeDir = Some(HomePath)
    /\ tmpSeparate = FALSE
    /\ signingKey = KeyA
    /\ files = [q \in {config.installed_bin} |-> [content |-> OldBin, exec |-> TRUE]]
    /\ venv = ReadyVenv
    /\ runs = 1
    /\ proc = [p \in Procs |-> Resolved(files)]
    /\ call = NoCall

\* apply_update, one step of it
ApplyUpdate(p) ==
    \/ DownloadBinary(p) \/ CreateNew(p) \/ WriteNew(p)
    \/ DownloadSig(p) \/ CreateSig(p) \/ WriteSig(p)
    \/ Verify(p) \/ CleanupNew(p) \/ CleanupSig(p)
    \/ Chmod(p) \/ Rename(p) \/ RemoveSig(p) \/ Report(p)

NextTwo == \E p \in Procs : ApplyUpdate(p)

SpecTwo == InitTwo /\ [][NextTwo]_vars

\* ================================================================ claims
StagingFiles(fs) == [q \in {new_path, sig_path} \cap DOMAIN fs |-> fs[q]]
Acted(p) == proc'[p] # proc[p]
InTrace(p, ev) == \E i \in 1..Len(proc[p].trace) : proc[p].trace[i] = ev

\* C1: installed_bin is replaced only in an attempt whose
\* verify_binary_signature returned Ok for the staged concierge.new and
\* concierge.new.sig under the embedded key; in an attempt whose
\* verification returned Err the rename is never executed and installed_bin
\* holds what it held before the attempt.
C1_InstallOnlyIfVerified ==
    /\ [](\A p \in Procs :
            proc[p].vres \notin {"none", "Ok"} =>
                /\ ~InTrace(p, "rename")
                /\ InstalledNow(files) = proc[p].binAtStart)
    /\ [][InstalledNow(files)' # InstalledNow(files) =>
            \E p \in Procs :
                /\ Acted(p)
                /\ proc[p].vres = "Ok"
                /\ verify_binary_signature(files, new_path, sig_path) = "Ok"
                /\ files'[config.installed_bin].content = files[new_path].content]_vars

\* a second run rejected a signature after the first run had installed
C1_Witness ==
    /\ runs = 2
    /\ proc[1].pc = "exited"
    /\ proc[1].vres = "Mismatch"
    /\ ConfigOk
    /\ files[config.installed_bin].content = BlobA

\* C2: the only step that changes what installed_bin holds is the rename
\* of concierge.new onto it in apply_update: the whole staged file takes
\* the name, and nothing writes installed_bin in place.
C2_OnlyRenameWrites ==
    [][InstalledNow(files)' # InstalledNow(files) =>
         \E p \in Procs :
            /\ proc[p].pc = "rename"
            /\ proc'[p].pc = "rm_sig"
            /\ files' = RenameFile(files, new_path, config.installed_bin)]_vars

C2_Witness ==
    \E p \in Procs :
        /\ proc[p].pc = "rm_sig"
        /\ InstalledNow(files) # proc[p].binAtStart
        /\ ~Exists(files, new_path)

\* C3: when an apply_update run is killed at any step boundary,
\* installed_bin holds either exactly what it held before the run or
\* exactly the complete downloaded artifact, never a part of it.
C3_KillLeavesOldOrNew ==
    [][\A p \in Procs :
          (proc[p].selfUpdate /\ proc[p].pc # "killed" /\ proc'[p].pc = "killed") =>
             \/ InstalledNow(files)' = proc[p].binAtStart
             \/ /\ InTrace(p, "rename")
                /\ proc[p].bytes \in Blobs
                /\ InstalledNow(files)' = Some([content |-> proc[p].bytes, exec |-> TRUE])]_vars

\* killed after the rename and before the signature was removed
C3_Witness ==
    /\ runs = 1
    /\ proc[1].pc = "killed"
    /\ ConfigOk
    /\ files[config.installed_bin].content \in Blobs
    /\ Exists(files, sig_path)

ForcedSteps == <<"resolve", "download_bin", "download_sig", "verify",
                 "chmod", "rename", "rm_sig", "report">>
ForcedStepSet == {ForcedSteps[i] : i \in 1..Len(ForcedSteps)}
CoreTrace(p) == SelectSeq(proc[p].trace, LAMBDA ev : ev \in ForcedStepSet)

C5_ForcedUpdateOrder ==
    \A p \in Procs :
        proc[p].selfUpdate =>
            /\ IsPrefix(CoreTrace(p), ForcedSteps)
            /\ (proc[p].applyRes = "Ok" => CoreTrace(p) = ForcedSteps)
            /\ (InTrace(p, "chmod") \/ InTrace(p, "rename") => proc[p].vres = "Ok")

C5_Witness ==
    \E p \in Procs :
        /\ proc[p].selfUpdate
        /\ proc[p].applyRes = "Ok"
        /\ proc[p].pc = "upgrade"

\* C6: after apply_update has returned, with Ok or with any Err, neither
\* concierge.new nor concierge.new.sig exists in data_dir.
C6_NoStagingAfterReturn ==
    \A p \in Procs :
        proc[p].applyRes # "none" =>
            /\ ~Exists(files, new_path)
            /\ ~Exists(files, sig_path)

\* C7: for every LauncherConfig launcher_config produces, the staging
\* path apply_update wrote the candidate binary to lies in the directory
\* of installed_bin, hence on its filesystem, when the rename is made.
C7_StagingBesideInstalled ==
    \A p \in Procs :
        proc[p].pc = "rename" =>
            /\ Parent(new_path) = Parent(config.installed_bin)
            /\ FsOf(new_path) = FsOf(config.installed_bin)

\* C8: a passive run (no --self-update, skip_update false) only resolves
\* and compares: it downloads nothing, creates no staging file and leaves
\* installed_bin alone, and whatever the resolver answers, control goes on
\* to ensure_environment with no error and no exit.
PassiveRun(p) ==
    /\ ~proc[p].selfUpdate
    /\ ~proc[p].skipUpdate
    /\ proc[p].pc \notin Stopped \cup {"start"}

C8_PassiveOnlyAdvises ==
    /\ [](\A p \in Procs :
            PassiveRun(p) =>
                /\ ~InTrace(p, "download_bin")
                /\ ~InTrace(p, "download_sig")
                /\ proc[p].bytes = <<>>)
    /\ [][\A p \in Procs :
            (PassiveRun(p) /\ Acted(p)) =>
                /\ StagingFiles(files)' = StagingFiles(files)
                /\ InstalledNow(files)' = InstalledNow(files)
                /\ (proc[p].pc \in {"check", "compare"} /\ proc'[p].pc # "killed" =>
                       /\ proc'[p].pc \in {"compare", "ensure_env"}
                       /\ proc'[p].err = "none"
                       /\ proc'[p].exitCode = -1
                       /\ files' = files)]_vars

\* a passive run that printed the advisory message and reached the exec
C8_Witness ==
    \E p \in Procs :
        /\ PassiveRun(p)
        /\ InTrace(p, "msg_update_available")
        /\ proc[p].pc = "exec"

\* C9: a forced update ends with status 0 exactly when a release was
\* resolved and apply_update and upgrade_package both returned Ok; with
\* status 1 when check_latest_release returned None; and with a non-zero
\* status and the error whenever apply_update or upgrade_package failed.
C9_ForcedExitStatus ==
    \A p \in Procs :
        (proc[p].selfUpdate /\ proc[p].pc = "exited") =>
            /\ (proc[p].exitCode = 0) <=>
                   (IsSome(proc[p].release) /\ proc[p].applyRes = "Ok"
                        /\ proc[p].upgradeRes = "Ok")
            /\ (InTrace(p, "resolve") /\ proc[p].release = None) => proc[p].exitCode = 1
            /\ (proc[p].applyRes = "Err" \/ proc[p].upgradeRes = "Err") =>
                   (proc[p].exitCode # 0 /\ proc[p].err # "none")

C9_Witness ==
    \E p \in Procs :
        /\ proc[p].selfUpdate
        /\ proc[p].pc = "exited"
        /\ proc[p].exitCode = 0
        /\ InTrace(p, "msg_restart")

\* C10: when a forced update reports success (the restart message and
\* status 0), installed_bin holds the verified new binary, no staging
\* binary remains, the package upgrade succeeded and version_file holds
\* release.version.
C10_SuccessIsComplete ==
    \A p \in Procs :
        (proc[p].selfUpdate /\ proc[p].pc = "exited" /\ proc[p].exitCode = 0) =>
            /\ InTrace(p, "msg_restart")
            /\ proc[p].vres = "Ok"
            /\ InstalledNow(files) = Some([content |-> proc[p].bytes, exec |-> TRUE])
            /\ ~Exists(files, new_path)
            /\ proc[p].upgradeRes = "Ok"
            /\ venv.pkg = Some(Val(proc[p].release).version)
            /\ Exists(files, config.version_file)
            /\ files[config.version_file].content = Val(proc[p].release).version

C10_Witness ==
    \E p \in Procs :
        /\ proc[p].selfUpdate
        /\ proc[p].pc = "exited"
        /\ proc[p].exitCode = 0
        /\ files[config.installed_bin].content = BlobB
        /\ files[config.version_file].content = <<"2", ".", "0", ".", "0">>

\* ------------------------------------------ claims on the functions alone
Called(fn) == call.fn = fn /\ call.res # "none"
BothReadable == Exists(files, test_bin_path) /\ Exists(files, test_sig_path)

\* C11: verify_binary_signature_with_key returns an error whenever the
\* signature file is not exactly 64 bytes long, for every key (valid,
\* undecodable or the placeholder) and every artifact; it is the length
\* error, which comes before the key is decoded and before any
\* verification.
C11_LengthErrorFirst ==
    (Called("verify") /\ Exists(files, test_sig_path)
        /\ files[test_sig_path].content.len # 64) =>
            /\ call.res # "Ok"
            /\ (Exists(files, test_bin_path) => call.res = "BadLen")

\* a 7-byte signature and a key that does not decode: the length error
C11_Witness ==
    /\ Called("verify")
    /\ BothReadable
    /\ files[test_sig_path].content = ShortSig
    /\ call.key = BadKey
    /\ call.res = "BadLen"

\* C12: for every artifact B and every valid keypair, verification of a
\* file holding B with a signature file holding sign(sk, B) under pk
\* returns Ok.
C12_ValidSignatureAccepted ==
    (Called("verify") /\ BothReadable /\ call.key \in RealKeys
        /\ files[test_sig_path].content = Sign(call.key, files[test_bin_path].content)) =>
            call.res = "Ok"

C12_Witness ==
    /\ Called("verify")
    /\ BothReadable
    /\ call.key = KeyB
    /\ files[test_bin_path].content = BlobA
    /\ files[test_sig_path].content = Sign(KeyB, BlobA)
    /\ call.res = "Ok"

\* C13: for every artifact B and every B' that differs from B,
\* verification of a file holding B' with the signature sign(sk, B)
\* returns Err, under the matching key as under any other.
C13_OtherBytesRejected ==
    (Called("verify") /\ BothReadable
        /\ \E k \in RealKeys, b \in TestBlobs :
              /\ files[test_sig_path].content = Sign(k, b)
              /\ files[test_bin_path].content # b) =>
            call.res \notin {"Ok", "none"}

\* one byte changed, the signature of the matching key: a mismatch
C13_Witness ==
    /\ Called("verify")
    /\ BothReadable
    /\ call.key = KeyA
    /\ files[test_bin_path].content = BlobB
    /\ files[test_sig_path].content = Sign(KeyA, BlobA)
    /\ call.res = "Mismatch"

\* C14: for every artifact B and two distinct keypairs, verification of B
\* with the signature sign(sk1, B) under pk2 returns Err.
C14_OtherKeyRejected ==
    (Called("verify") /\ BothReadable
        /\ \E k \in RealKeys :
              /\ files[test_sig_path].content = Sign(k, files[test_bin_path].content)
              /\ call.key # k) =>
            call.res \notin {"Ok", "none"}

C14_Witness ==
    /\ Called("verify")
    /\ BothReadable
    /\ call.key = KeyB
    /\ files[test_bin_path].content = BlobA
    /\ files[test_sig_path].content = Sign(KeyA, BlobA)
    /\ call.res = "Mismatch"

\* C15: is_newer(release) returns true exactly when release.version and
\* the running version both parse as semantic versions and release.version
\* is strictly greater by major, then minor, then patch; it returns false
\* for an equal version, an older one and an unparsable string.
C15_IsNewerByMajorMinorPatch ==
    Called("is_newer") =>
        LET latest  == VersionParse(call.version)
            current == VersionParse(CARGO_PKG_VERSION)
        IN (call.res = "true") <=>
              /\ latest.ok
              /\ current.ok
              /\ \/ latest.major > current.major
                 \/ latest.major = current.major /\ latest.minor > current.minor
                 \/ /\ latest.major = current.major
                    /\ latest.minor = current.minor
                    /\ latest.patch > current.patch

\* ------------------------------------------------ claims on the launcher
\* C16: while SIGNING_PUBLIC_KEY is the all-zero placeholder,
\* verify_binary_signature returns Err for every binary and every signature
\* file, so no forced update reaches the rename and installed_bin is never
\* changed by apply_update.
C16_PlaceholderKeyBlocksUpdate ==
    signingKey = ZeroKey =>
        /\ \A b \in TestBlobs, s \in TestSigs \cup SigBlobs :
              verify_binary_signature(TestFiles(Some(b), Some(s)),
                                      test_bin_path, test_sig_path) # "Ok"
        /\ \A p \in Procs :
              /\ proc[p].vres # "Ok"
              /\ ~InTrace(p, "rename")
              /\ proc[p].pc \notin {"chmod", "rename", "rm_sig", "report"}
        /\ ConfigOk =>
              /\ Exists(files, config.installed_bin)
              /\ files[config.installed_bin].content = OldBin

\* a forced update under the placeholder key rejected a signature that a
\* real key made over the very bytes that were downloaded
C16_Witness ==
    /\ signingKey = ZeroKey
    /\ \E p \in Procs :
          /\ proc[p].selfUpdate
          /\ proc[p].vres = "Mismatch"
          /\ proc[p].sigBytes = Sign(KeyA, proc[p].bytes)
          /\ proc[p].pc = "exited"

\* C17: verify_binary_signature_with_key has no effect on the filesystem:
\* for every input and every outcome (Ok, length error, invalid key,
\* mismatch, unreadable file) the binary, the signature file and every
\* other path are left exactly as they were.
C17_VerifyLeavesFiles ==
    [][(call.fn = "verify" /\ call'.res # call.res) =>
            /\ call'.res \in {"Ok", "BadLen", "InvalidKey", "Mismatch", "Io"}
            /\ files' = files]_vars

\* a rejected signature: the two files are still there after the call
C17_Witness ==
    /\ Called("verify")
    /\ call.res = "InvalidKey"
    /\ BothReadable
    /\ files[test_bin_path].content = BlobA
    /\ files[test_sig_path].content = Sign(KeyA, BlobA)

\* an intact archive none of whose entries has the base name "uv"
NoUvEntry(entries) ==
    \A i \in 1..Len(entries) :
        ~entries[i].corrupt /\ file_name(entries[i].path) # Some("uv")

\* C18: extract_uv on an archive in which no entry has the base name "uv"
\* returns the error "uv binary not found in archive" and creates no file
\* in dest_dir.
C18_NoUvEntryIsAnError ==
    [][\A p \in Procs :
          (/\ proc[p].pc = "uv_extract"
           /\ Acted(p)
           /\ proc'[p].pc # "killed"
           /\ Exists(files, tarball)
           /\ NoUvEntry(files[tarball].content)) =>
              /\ proc'[p].pc = "uv_extract_err"
              /\ proc'[p].uvErr = "notfound"
              /\ files' = files]_vars

\* the launcher ended on an archive holding only "not-uv"
C18_Witness ==
    \E p \in Procs :
        /\ proc[p].pc = "exited"
        /\ proc[p].uvErr = "notfound"
        /\ proc[p].err = "NoPython"
        /\ proc[p].archive = <<Entry(<<"not-uv">>, UvB)>>
        /\ ~Exists(files, Join(extract_dir, "uv"))
        /\ ~Exists(files, config.uv_path)

\* the positions of the stream whose entry is intact, is named "uv" and
\* has only intact entries before it
UvEntries(entries) ==
    {i \in 1..Len(entries) :
        /\ file_name(entries[i].path) = Some("uv")
        /\ \A j \in 1..i : ~entries[j].corrupt}
FirstUv(entries) == CHOOSE i \in UvEntries(entries) : \A j \in UvEntries(entries) : i <= j
InDir(fs, dir) == {q \in DOMAIN fs : IsPrefix(dir, q)}

\* C19: extract_uv walks the entries in stream order and unpacks exactly
\* one: the first whose base name, directory prefix ignored, is "uv".  The
\* path it returns is dest_dir/uv, holding that entry's content with the
\* executable permission; entries before it are not written, entries after
\* it are not examined, and a path is returned only for an exact match of
\* the name.
C19_FirstUvEntryUnpacked ==
    /\ [](\A p \in Procs : proc[p].pc = "uv_copy" =>
            LET entries == files[tarball].content
                out == Join(extract_dir, "uv")
            IN /\ UvEntries(entries) # {}
               /\ proc[p].uvBin = Some(out)
               /\ Exists(files, out)
               /\ files[out].content = entries[FirstUv(entries)].content
               /\ files[out].exec
               /\ InDir(files, extract_dir) = {tarball, out})
    /\ [][\A p \in Procs :
            (/\ proc[p].pc = "uv_extract"
             /\ Acted(p)
             /\ proc'[p].pc # "killed"
             /\ Exists(files, tarball)) =>
                /\ files' = files
                /\ (proc'[p].pc = "uv_unpack") = (UvEntries(files[tarball].content) # {})]_vars

\* the second of three entries was unpacked: "uvx" before it was passed
\* over and "d/uv" after it was not taken
C19_Witness ==
    \E p \in Procs :
        /\ proc[p].pc = "uv_copy"
        /\ proc[p].archive =
              <<Entry(<<"uvx">>, UvB), Entry(<<"uv">>, UvA), Entry(<<"d", "uv">>, UvB)>>
        /\ files[Join(extract_dir, "uv")].content = UvA

\* the complete helper binaries an archive can hold
CompleteUv == {UvA, UvB}

\* C20: ensure_uv installs the helper as the self-update installs the
\* launcher: at every point of every run, a run interrupted or failing at
\* any step included, config.uv_path is absent or holds the complete
\* extracted binary, so a later run whose `uv_path.exists()` succeeds
\* never uses a partially written file.
C20_UvPathAbsentOrComplete ==
    ConfigOk =>
        /\ Exists(files, config.uv_path) => files[config.uv_path].content \in CompleteUv
        /\ \A p \in Procs :
              (proc[p].pc = "mk_venv" /\ ~proc[p].python) =>
                  /\ Exists(files, config.uv_path)
                  /\ files[config.uv_path].content \in CompleteUv

\* the positions of a process inside ensure_uv
UvPhase == {"uv_check", "uv_tarball", "uv_extract", "uv_extract_err", "uv_unpack",
            "uv_unpack_write", "uv_copy", "uv_copy_write", "uv_rmdir"}
\* C21: when the venv binary is absent, no system Python is found and
\* ensure_uv fails for any reason, ensure_environment returns
\* SetupError::NoPython: no venv is created, no package is installed, the
\* version file is not written, and main returns the error without calling
\* exec_python_concierge.
C21_UvFailureIsFatal ==
    /\ [](\A p \in Procs : proc[p].uvErr # "none" =>
            /\ proc[p].pc \in {"uv_extract_err", "exited"}
            /\ ~proc[p].python
            /\ ~venv.concierge
            /\ ~InTrace(p, "exec")
            /\ proc[p].pc = "exited" =>
                  /\ proc[p].err = "NoPython"
                  /\ proc[p].exitCode = 1)
    /\ [][\A p \in Procs :
            (Acted(p) /\ proc[p].pc \in UvPhase) =>
                /\ venv' = venv
                /\ VersionFileNow(files)' = VersionFileNow(files)]_vars

\* the download of the helper failed on a machine with nothing set up
C21_Witness ==
    \E p \in Procs :
        /\ proc[p].pc = "exited"
        /\ proc[p].uvErr = "network"
        /\ proc[p].err = "NoPython"
        /\ venv = NoVenv
        /\ VersionFileNow(files) = None

\* the positions of the assets whose name is that of the running platform
Matching(assets) == {i \in 1..Len(assets) : assets[i].name = asset_name}
StripLeadingV(t) == IF t # <<>> /\ Head(t) = "v" THEN Tail(t) ELSE t

\* C22: check_latest_release returns Some(ReleaseInfo) only when the
\* registry answered with a success status, the body parsed and an asset
\* is named "concierge-{arch}-{suffix}" exactly; download_url is the URL of
\* the first such asset and version is tag_name with its leading "v"
\* removed; in every other case it returns None.
C22_ReleaseResolution ==
    Called("check") =>
        LET resp == call.resp
            m == Matching(resp.assets)
        IN IF resp.kind = "json" /\ resp.status \in 200..299 /\ m # {}
           THEN call.info =
                  Some([version |-> StripLeadingV(resp.tag_name),
                        download_url |->
                            resp.assets[CHOOSE i \in m : \A j \in m : i <= j].url])
           ELSE call.info = None

\* ------------------------------------------ claims on two launchers
\* the positions of a run that has written its staged binary and has not
\* renamed it yet
Staged == {"dl_sig", "create_sig", "write_sig", "verify", "chmod", "rename"}

\* C23: the staging files have fixed names, data_dir/concierge.new and
\* data_dir/concierge.new.sig, not one per attempt: when two apply_update
\* runs interleave, nothing keeps a run from truncating or deleting what
\* the other run has staged and not yet renamed.
C23_StagingIsShared ==
    \A p \in Procs : \A q \in Procs \ {p} :
        (proc[q].pc \in Staged /\ Exists(files, new_path)) =>
            /\ proc[p].pc = "create_new" =>
                  ENABLED (CreateNew(p) /\ files'[new_path].content = <<>>)
            /\ proc[p].pc = "cleanup_new" =>
                  ENABLED (CleanupNew(p) /\ ~Exists(files, new_path)')

\* a run that verified its staged binary is about to rename a file the
\* other run has truncated since
C23_Witness ==
    \E p \in Procs : \E q \in Procs \ {p} :
        /\ proc[q].pc = "rename"
        /\ proc[q].vres = "Ok"
        /\ proc[p].pc = "write_new"
        /\ proc[p].off = 0
        /\ files[new_path].content = <<>>

\* C24: with two apply_update runs interleaved on the same data_dir and
\* installed_bin, every content that becomes observable at installed_bin
\* is a complete byte sequence that passed the signature verification of
\* the run that renamed it; no interleaving installs bytes written to
\* concierge.new after that run's verification read them.
C24_InstalledIsVerified ==
    /\ [](ConfigOk =>
            /\ Exists(files, config.installed_bin)
            /\ files[config.installed_bin].content \in {OldBin} \cup Blobs)
    /\ [][\A p \in Procs :
            (proc[p].pc = "rename" /\ proc'[p].pc = "rm_sig") =>
                /\ proc[p].verified # None
                /\ files'[config.installed_bin].content = Val(proc[p].verified)]_vars

\* ------------------------------------ claims on runs that follow runs
\* C25: over any sequence of apply_update attempts on the same data_dir,
\* an attempt that follows one which failed after the permission step
\* included, concierge.new never carries the executable permission while
\* its content has not passed the signature verification.
C25_ExecutableOnlyIfVerified ==
    (ConfigOk /\ Exists(files, new_path) /\ files[new_path].exec) =>
        /\ files[new_path].content \in Blobs
        /\ verify_binary_signature(files, new_path, sig_path) = "Ok"

\* C26: after a forced-update run, whatever its outcome, the installed
\* binary and the version marker agree: version_file was given
\* release.version exactly when installed_bin was replaced by the
\* release's binary in this run, and a run that ends with an error leaves
\* both as they were before it.
C26_BinaryAndMarkerAgree ==
    \A p \in Procs :
        (proc[p].selfUpdate /\ proc[p].pc = "exited") =>
            /\ InTrace(p, "write_version") <=> InTrace(p, "rename")
            /\ InTrace(p, "write_version") =>
                  /\ VersionFileNow(files) # None
                  /\ Val(VersionFileNow(files)).content = Val(proc[p].release).version
            /\ proc[p].exitCode = 1 =>
                  /\ InstalledNow(files) = proc[p].binAtStart
                  /\ VersionFileNow(files) = proc[p].verAtStart

\* C27: in the forced self-update the version comparison has no effect:
\* main calls apply_update for every release check_latest_release
\* resolves, without consulting is_newer, so a verified release whose
\* version is equal to or lower than the running one is installed just
\* like a newer one.
C27_ForcedIgnoresVersion ==
    \A p \in Procs :
        /\ (proc[p].pc = "check" /\ proc[p].selfUpdate) =>
              \A resp \in Responses :
                  IsSome(check_latest_release(resp)) =>
                      ENABLED (/\ ForcedCheck(p)
                               /\ proc'[p].pc = "dl_bin"
                               /\ proc'[p].release = check_latest_release(resp))
        /\ proc[p].selfUpdate =>
              /\ ~InTrace(p, "compare")
              /\ ~InTrace(p, "msg_update_available")

\* a forced update installed a release older than the running launcher
C27_Witness ==
    \E p \in Procs :
        /\ proc[p].selfUpdate
        /\ proc[p].pc = "exited"
        /\ proc[p].exitCode = 0
        /\ Val(proc[p].release).version = <<"0", ".", "9", ".", "0">>
        /\ ~is_newer(Val(proc[p].release))
        /\ InTrace(p, "rename")
        /\ files[config.installed_bin].content = proc[p].bytes
====
